---- MODULE Spec2Model ----
(***************************************************************************)
(* Model of the refinement tree of src/src/app/page.tsx: the forest of     *)
(* GeneratedImage records, the three pure tree functions (findImageById,   *)
(* addRefinementsToImage, findSiblings) and the event handlers of the Home *)
(* component (handleGenerate, handleRefine, handleKeyDown, the click       *)
(* handlers) together with the fetch calls they leave in flight.           *)
(*                                                                         *)
(* Encoding of the TypeScript values:                                      *)
(*   - an id (crypto.randomUUID()) is a positive integer taken from the    *)
(*     counter nextId; `string | null` ids use null (0) for null;          *)
(*   - a data URL "data:<mime>;base64,<data>" is the pair of its parts     *)
(*     around the comma, <<"data:<mime>;base64", data>>;                   *)
(*   - a result of type `T | null` of the tree functions is None (<<>>)    *)
(*     for null and Some(x) (<<x>>) for the value x.                       *)
(*                                                                         *)
(* The module has five specifications over the same variables:             *)
(*   Spec        the Home component, from its first render on;             *)
(*   SpecTree    the three tree functions applied to every small forest;   *)
(*   SpecKeys    handleKeyDown applied to every small forest and selection;*)
(*   SpecGuards  handleGenerate and handleRefine invoked directly;         *)
(*   SpecServer  the endpoint POST of src/src/app/api/generate/route.ts.   *)
(***************************************************************************)
EXTENDS Integers, Sequences, FiniteSets, TLC

VARIABLES
    generatedImages,   \* useState<GeneratedImage[]>([])        page.tsx:254
    selectedImageId,   \* useState<string | null>(null)         page.tsx:258
    refiningImageId,   \* useState<string | null>(null)         page.tsx:260
    isLoading,         \* useState(false)                       page.tsx:255
    error,             \* useState<string | null>(null)         page.tsx:256
    refinementPrompt,  \* useState("")                          page.tsx:259
    modalImage,        \* useState<string | null>(null)         page.tsx:257
    apiKey,            \* apiKey of useApiKey()                 page.tsx:264
    images,            \* useState<UploadedImage[]>([])         page.tsx:250
    isLoadingDefaults, \* useState(true)                        page.tsx:251
    imageCount,        \* useState(5)                           page.tsx:261
    nextId,            \* the next value crypto.randomUUID() returns
    generateCalls,     \* fetches of handleGenerate awaiting their response
    refineCalls,       \* fetches of handleRefine awaiting their response
    targetId,          \* argument of the tree function under test
    newRefinements,    \* argument of the tree function under test
    op,                \* the function or handler applied last
    result,            \* what it returned
    request,           \* the request POST of api/generate/route.ts received
    modelCalls,        \* the indexes whose generateContent call is awaited
    results,           \* what the generateSingleImage calls returned, in the
                       \* order in which they returned
    response           \* the NextResponse POST returned

vars == <<generatedImages, selectedImageId, refiningImageId, isLoading, error,
          refinementPrompt, modalImage, apiKey, images, isLoadingDefaults,
          imageCount, nextId,
          generateCalls, refineCalls, targetId, newRefinements, op, result,
          request, modelCalls, results, response>>

appVars == <<generatedImages, selectedImageId, refiningImageId, isLoading, error,
             refinementPrompt, modalImage, apiKey, images, isLoadingDefaults,
          imageCount, nextId,
             generateCalls, refineCalls>>

treeVars == <<targetId, newRefinements, op, result>>

serverVars == <<request, modelCalls, results, response>>

\* the variables that are not state of the Home component
outsideHome == <<treeVars, serverVars>>

(***************************************************************************)
(* Bounds.                                                                 *)
(***************************************************************************)
\* number of nodes of the forests the tree functions are applied to
MaxNodes == 4
\* length of the newRefinements argument the tree functions are applied to
MaxNew == 2
\* number of ids crypto.randomUUID() hands out in one run of the application
MaxIds == 4
\* number of fetches left awaiting a response by handlers invoked directly
MaxCalls == 2
\* nodes of the forests in which a refinement's response is made to land
MaxPending == 3

(***************************************************************************)
(* Values.                                                                 *)
(***************************************************************************)
null == 0

None == <<>>

Some(x) == <<x>>

DataUrl(data) == <<"data:image/png;base64", data>>

\* dataUrl.split(",")[1] || dataUrl
extractBase64(dataUrl) ==
    IF Len(dataUrl) >= 2 /\ dataUrl[2] # "" THEN dataUrl[2] ELSE dataUrl

\* { id: crypto.randomUUID(), url, base64: extractBase64(url), refinements: [] }
NewImage(id, url) ==
    [id |-> id, url |-> url, base64 |-> extractBase64(url), refinements |-> <<>>]

(***************************************************************************)
(* The tree functions.                                                     *)
(***************************************************************************)
\* findImageById returning whatever the search of the first subtree returns
RECURSIVE findImageByIdFirstBranch(_, _)
findImageByIdFirstBranch(imgs, id) ==
    IF imgs = <<>> THEN None
    ELSE LET img == Head(imgs) IN
         IF img.id = id THEN Some(img)
         ELSE IF img.refinements # <<>>
         THEN findImageByIdFirstBranch(img.refinements, id)
         ELSE findImageByIdFirstBranch(Tail(imgs), id)

RECURSIVE findImageById(_, _)
findImageById(imgs, id) ==
    IF imgs = <<>> THEN None
    ELSE LET img == Head(imgs) IN
         IF img.id = id THEN Some(img)
         ELSE LET found == findImageById(img.refinements, id) IN
              IF found # None THEN found
              ELSE findImageById(Tail(imgs), id)

\* addRefinementsToImage looking for the target among the roots only
addRefinementsToRootOnly(imgs, target, new) ==
    [i \in 1..Len(imgs) |->
        LET img == imgs[i] IN
        IF img.id = target
        THEN [img EXCEPT !.refinements = img.refinements \o new]
        ELSE img]

\* addRefinementsToImage putting the new records before the old children
RECURSIVE addRefinementsInFront(_, _, _)
addRefinementsInFront(imgs, target, new) ==
    [i \in 1..Len(imgs) |->
        LET img == imgs[i] IN
        IF img.id = target
        THEN [img EXCEPT !.refinements = new \o img.refinements]
        ELSE [img EXCEPT !.refinements =
                  addRefinementsInFront(img.refinements, target, new)]]

\* addRefinementsToImage attaching the new records to every leaf it passes
RECURSIVE addRefinementsToLeaves(_, _, _)
addRefinementsToLeaves(imgs, target, new) ==
    [i \in 1..Len(imgs) |->
        LET img == imgs[i] IN
        IF img.id = target \/ img.refinements = <<>>
        THEN [img EXCEPT !.refinements = img.refinements \o new]
        ELSE [img EXCEPT !.refinements =
                  addRefinementsToLeaves(img.refinements, target, new)]]

RECURSIVE addRefinementsToImage(_, _, _)
addRefinementsToImage(imgs, target, new) ==
    [i \in 1..Len(imgs) |->
        LET img == imgs[i] IN
        IF img.id = target
        THEN [img EXCEPT !.refinements = img.refinements \o new]
        ELSE [img EXCEPT !.refinements =
                  addRefinementsToImage(img.refinements, target, new)]]

\* findSiblings looking no deeper than the children of the roots
findSiblingsTwoLevels(imgs, target) ==
    IF \E i \in 1..Len(imgs) : imgs[i].id = target
    THEN Some(imgs)
    ELSE LET hits == {k \in 1..Len(imgs) :
                        \E j \in 1..Len(imgs[k].refinements) :
                            imgs[k].refinements[j].id = target}
         IN IF hits = {} THEN None
            ELSE Some(imgs[CHOOSE k \in hits : \A m \in hits : k <= m].refinements)

RECURSIVE findSiblingsLoop(_, _, _)
RECURSIVE findSiblings(_, _)
\* the for loop of findSiblings, from its k-th iteration on
findSiblingsLoop(imgs, k, target) ==
    IF k > Len(imgs) THEN None
    ELSE LET img == imgs[k] IN
         IF \E j \in 1..Len(img.refinements) : img.refinements[j].id = target
         THEN Some(img.refinements)
         ELSE LET found == findSiblings(img.refinements, target) IN
              IF found # None THEN found
              ELSE findSiblingsLoop(imgs, k + 1, target)

findSiblings(imgs, target) ==
    IF \E i \in 1..Len(imgs) : imgs[i].id = target
    THEN Some(imgs)
    ELSE findSiblingsLoop(imgs, 1, target)

(***************************************************************************)
(* The Home component: values of its inputs.                               *)
(***************************************************************************)
\* texts typed into the refinement textarea
Prompts == {"", " ", "brighter colors"}

\* String.prototype.trim on those texts
trim(s) == IF s = " " THEN "" ELSE s

\* image payloads the generation model returns
Payloads == {"imgA", "imgB"}

Urls == {DataUrl(d) : d \in Payloads}

\* the options of the "Number of Images" select that the model exercises
ImageCountOptions == {4, 5}

DEFAULT_IMAGES == <<"reference1.png", "reference2.png", "reference3.png", "reference4.png">>

Keys == {"ArrowLeft", "ArrowRight", "Enter"}

NoError == ""

RemoveAt(s, i) == [j \in 1..(Len(s) - 1) |-> IF j < i THEN s[j] ELSE s[j + 1]]

\* hasApiKey: Boolean(apiKey)
hasApiKey == apiKey # ""

canGenerate == Len(images) > 0 /\ ~isLoading

\* the `disabled` attribute without its test of the pending-refinement marker
refineDisabledByPromptOnly == trim(refinementPrompt) = ""

\* the `disabled` attribute of both "Refine" buttons
refineDisabled == trim(refinementPrompt) = "" \/ refiningImageId # null

\* the images a RefinementTree over `refinements` renders, itself and the
\* RefinementTrees it renders recursively
RECURSIVE RefinementTree(_)
RefinementTree(refinements) ==
    {refinements[i] : i \in 1..Len(refinements)}
      \cup UNION {RefinementTree(refinements[i].refinements) :
                    i \in {j \in 1..Len(refinements) : Len(refinements[j].refinements) > 0}}

\* the images rendered by the RefinementTrees of Home
RenderedRefinements ==
    IF Len(generatedImages) > 0
    THEN UNION {RefinementTree(generatedImages[i].refinements) :
                  i \in {j \in 1..Len(generatedImages) : Len(generatedImages[j].refinements) > 0}}
    ELSE {}

\* the images of the root grid
RenderedRoots == {generatedImages[i] : i \in 1..Len(generatedImages)}

\* Wrap numbering the records of every response from 1, as if
\* crypto.randomUUID() repeated itself
WrapReusingIds(dataImages, firstId) ==
    LET urls == SelectSeq(dataImages, LAMBDA u : u # None) IN
    [i \in 1..Len(urls) |-> NewImage(i, urls[i])]

\* Wrap without the filter: a record for every slot, failed or not
WrapEverySlot(dataImages, firstId) ==
    [i \in 1..Len(dataImages) |-> NewImage(firstId + i - 1, dataImages[i])]

\* data.images.filter(img => img !== null).map(url => ({id: crypto.randomUUID(), ...}))
Wrap(dataImages, firstId) ==
    LET urls == SelectSeq(dataImages, LAMBDA u : u # None) IN
    [i \in 1..Len(urls) |-> NewImage(firstId + i - 1, urls[i])]

Successes(dataImages) == Len(SelectSeq(dataImages, LAMBDA u : u # None))

\* the arrays a 200 response to a request for `count` images carries that the
\* model exercises: any slots null, and the payloads of the others alternating,
\* so that neighbouring images differ
Responses(count) ==
    {dataImages \in [1..count -> Urls \cup {None}] :
        LET urls == SelectSeq(dataImages, LAMBDA u : u # None) IN
        \A i \in 1..Len(urls) :
            urls[i] = DataUrl(IF i % 2 = 1 THEN "imgA" ELSE "imgB")}

\* the outcomes of loading the four default images that the model exercises:
\* TRUE where loadDefaultImage returned an image, FALSE where it returned null
DefaultLoadOutcomes ==
    {<<TRUE, TRUE, TRUE, TRUE>>, <<FALSE, FALSE, FALSE, FALSE>>}

\* maxImages={3} of the ImageUploader that Home renders
maxImages == 3

\* the UploadedImage loadDefaultImage(url) resolves to when the image loads;
\* the name of the file stands for its id and for its content in base64
loadDefaultImage(url) == [id |-> url, base64 |-> url, mimeType |-> "image/png"]

\* loaded.filter(img => img !== null)
RECURSIVE Valid(_, _)
Valid(names, ok) ==
    IF names = <<>> THEN <<>>
    ELSE (IF Head(ok) THEN <<loadDefaultImage(Head(names))>> ELSE <<>>)
           \o Valid(Tail(names), Tail(ok))

\* the reference images once all the defaults have loaded
LoadedDefaults == Valid(DEFAULT_IMAGES, <<TRUE, TRUE, TRUE, TRUE>>)

\* images.map((img) => ({ data: img.base64, mimeType: img.mimeType }))
referenceImagesOf(imgs) ==
    [i \in 1..Len(imgs) |-> [data |-> imgs[i].base64, mimeType |-> imgs[i].mimeType]]

\* the ways a batch call fails: a non-OK response, or fetch rejecting
FailureKinds == {"http", "transport"}

\* err.message of the error the catch block receives
FailureMessage(kind, default) == IF kind = "http" THEN default ELSE "Failed to fetch"

(***************************************************************************)
(* The Home component: its state after the first render.                   *)
(***************************************************************************)
InitApp ==
    /\ generatedImages = <<>>
    /\ selectedImageId = null
    /\ refiningImageId = null
    /\ isLoading = FALSE
    /\ error = NoError
    /\ refinementPrompt = ""
    /\ modalImage = None
    /\ apiKey = ""
    /\ images = <<>>
    /\ isLoadingDefaults = TRUE
    /\ imageCount = 5
    /\ nextId = 1
    /\ generateCalls = <<>>
    /\ refineCalls = <<>>

Init ==
    /\ InitApp
    /\ targetId = null
    /\ newRefinements = <<>>
    /\ op = "none"
    /\ result = None
    /\ request = None
    /\ modelCalls = {}
    /\ results = <<>>
    /\ response = None

(***************************************************************************)
(* The Home component: its handlers.                                       *)
(***************************************************************************)
\* the preview modal is a fixed overlay over the whole page: while it is open
\* a click reaches the overlay, not the page under it
pageClickable == modalImage = None

loadDefaults(ok) ==
    /\ isLoadingDefaults
    /\ images' = Valid(DEFAULT_IMAGES, ok)
    /\ isLoadingDefaults' = FALSE
    /\ UNCHANGED <<generatedImages, selectedImageId, refiningImageId, isLoading, error,
                   refinementPrompt, modalImage, apiKey, imageCount, nextId,
                   generateCalls, refineCalls, outsideHome>>

handleSaveApiKey(apiKeyInput) ==
    /\ pageClickable
    /\ trim(apiKeyInput) # ""
    /\ apiKey' = trim(apiKeyInput)
    /\ UNCHANGED <<generatedImages, selectedImageId, refiningImageId, isLoading, error,
                   refinementPrompt, modalImage, images, isLoadingDefaults, imageCount,
                   nextId, generateCalls, refineCalls, outsideHome>>

handleClearApiKey ==
    /\ pageClickable
    /\ hasApiKey
    /\ apiKey' = ""
    /\ UNCHANGED <<generatedImages, selectedImageId, refiningImageId, isLoading, error,
                   refinementPrompt, modalImage, images, isLoadingDefaults, imageCount,
                   nextId, generateCalls, refineCalls, outsideHome>>

setImageCount(num) ==
    /\ pageClickable
    /\ ~isLoading
    /\ imageCount' = num
    /\ UNCHANGED <<generatedImages, selectedImageId, refiningImageId, isLoading, error,
                   refinementPrompt, modalImage, apiKey, images, isLoadingDefaults,
                   nextId, generateCalls, refineCalls, outsideHome>>

\* onClick of an image: select it, or deselect it when it is the selected one
onSelect(img) ==
    /\ pageClickable
    /\ selectedImageId' = IF selectedImageId = img.id THEN null ELSE img.id
    /\ UNCHANGED <<generatedImages, refiningImageId, isLoading, error, refinementPrompt,
                   modalImage, apiKey, images, isLoadingDefaults, imageCount, nextId,
                   generateCalls, refineCalls, outsideHome>>

onPreview(url) ==
    /\ pageClickable
    /\ modalImage' = url
    /\ UNCHANGED <<generatedImages, selectedImageId, refiningImageId, isLoading, error,
                   refinementPrompt, apiKey, images, isLoadingDefaults, imageCount, nextId,
                   generateCalls, refineCalls, outsideHome>>

closeModal ==
    /\ modalImage # None
    /\ modalImage' = None
    /\ UNCHANGED <<generatedImages, selectedImageId, refiningImageId, isLoading, error,
                   refinementPrompt, apiKey, images, isLoadingDefaults, imageCount, nextId,
                   generateCalls, refineCalls, outsideHome>>

\* the images whose "Refine this image" panel is rendered: the selected root
\* (page.tsx:701) or the selectedInThisRow of a RefinementTree (page.tsx:126)
panelImages ==
    {img \in RenderedRoots \cup RenderedRefinements :
        selectedImageId # null /\ img.id = selectedImageId}

onRefinementPromptChange(value) ==
    /\ pageClickable
    /\ panelImages # {}
    /\ refinementPrompt' = value
    /\ UNCHANGED <<generatedImages, selectedImageId, refiningImageId, isLoading, error,
                   modalImage, apiKey, images, isLoadingDefaults, imageCount, nextId,
                   generateCalls, refineCalls, outsideHome>>

\* handleKeyDown stopping at both ends of the siblings instead of wrapping
handleKeyDownNoWrap(key) ==
    /\ UNCHANGED <<generatedImages, refiningImageId, isLoading, error, refinementPrompt,
                   modalImage, apiKey, images, isLoadingDefaults, imageCount, nextId,
                   generateCalls, refineCalls>>
    /\ IF selectedImageId = null \/ modalImage # None THEN UNCHANGED selectedImageId
       ELSE IF key # "ArrowLeft" /\ key # "ArrowRight" THEN UNCHANGED selectedImageId
       ELSE LET found == findSiblings(generatedImages, selectedImageId) IN
            IF found = None THEN UNCHANGED selectedImageId
            ELSE LET siblings == found[1]
                     hits == {i \in 1..Len(siblings) : siblings[i].id = selectedImageId}
                 IN IF hits = {} THEN UNCHANGED selectedImageId
                    ELSE LET currentIndex == CHOOSE i \in hits : \A j \in hits : i <= j
                             newIndex ==
                                 IF key = "ArrowLeft"
                                 THEN (IF currentIndex > 1 THEN currentIndex - 1 ELSE 1)
                                 ELSE (IF currentIndex < Len(siblings) THEN currentIndex + 1
                                       ELSE Len(siblings))
                         IN selectedImageId' = siblings[newIndex].id

\* handleKeyDown without its test of the preview modal
handleKeyDownUnderModal(key) ==
    /\ UNCHANGED <<generatedImages, refiningImageId, isLoading, error, refinementPrompt,
                   modalImage, apiKey, images, isLoadingDefaults, imageCount, nextId,
                   generateCalls, refineCalls>>
    /\ IF selectedImageId = null THEN UNCHANGED selectedImageId
       ELSE IF key # "ArrowLeft" /\ key # "ArrowRight" THEN UNCHANGED selectedImageId
       ELSE LET found == findSiblings(generatedImages, selectedImageId) IN
            IF found = None THEN UNCHANGED selectedImageId
            ELSE LET siblings == found[1]
                     hits == {i \in 1..Len(siblings) : siblings[i].id = selectedImageId}
                 IN IF hits = {} THEN UNCHANGED selectedImageId
                    ELSE LET currentIndex == CHOOSE i \in hits : \A j \in hits : i <= j
                             newIndex ==
                                 IF key = "ArrowLeft"
                                 THEN (IF currentIndex > 1 THEN currentIndex - 1
                                       ELSE Len(siblings))
                                 ELSE (IF currentIndex < Len(siblings) THEN currentIndex + 1
                                       ELSE 1)
                         IN selectedImageId' = siblings[newIndex].id

\* the listener body, on the state of Home: it calls setSelectedImageId only
handleKeyDown(key) ==
    /\ UNCHANGED <<generatedImages, refiningImageId, isLoading, error, refinementPrompt,
                   modalImage, apiKey, images, isLoadingDefaults, imageCount, nextId,
                   generateCalls, refineCalls>>
    /\ IF selectedImageId = null \/ modalImage # None THEN UNCHANGED selectedImageId
       ELSE IF key # "ArrowLeft" /\ key # "ArrowRight" THEN UNCHANGED selectedImageId
       ELSE LET found == findSiblings(generatedImages, selectedImageId) IN
            IF found = None THEN UNCHANGED selectedImageId
            ELSE LET siblings == found[1]
                     hits == {i \in 1..Len(siblings) : siblings[i].id = selectedImageId}
                 IN IF hits = {} THEN UNCHANGED selectedImageId
                    ELSE LET currentIndex == CHOOSE i \in hits : \A j \in hits : i <= j
                             newIndex ==
                                 IF key = "ArrowLeft"
                                 THEN (IF currentIndex > 1 THEN currentIndex - 1
                                       ELSE Len(siblings))
                                 ELSE (IF currentIndex < Len(siblings) THEN currentIndex + 1
                                       ELSE 1)
                         IN selectedImageId' = siblings[newIndex].id

\* the keydown listener the effect of page.tsx:307 registers on window
onKeyDown(key) ==
    /\ handleKeyDown(key)
    /\ UNCHANGED outsideHome

\* body of the POST to /api/generate that handleGenerate sends
generateBody ==
    [prompt |-> <<"systemPrompt", "Content to visualize:", "userContent">>,
     referenceImages |-> referenceImagesOf(images),
     count |-> imageCount,
     apiKey |-> apiKey]

\* the body of a refinement with the image to refine put first
refineBodyTargetFirst(parentImage) ==
    [prompt |-> <<"systemPrompt", "Content to visualize:", "userContent",
                  "Refinement instructions:", refinementPrompt>>,
     referenceImages |-> <<[data |-> parentImage.base64, mimeType |-> "image/png"]>>
                           \o referenceImagesOf(images),
     count |-> 3,
     apiKey |-> apiKey]

\* body of the POST to /api/generate that handleRefine(parentImage) sends
refineBody(parentImage) ==
    [prompt |-> <<"systemPrompt", "Content to visualize:", "userContent",
                  "Refinement instructions:", refinementPrompt>>,
     referenceImages |-> referenceImagesOf(images)
                           \o <<[data |-> parentImage.base64, mimeType |-> "image/png"]>>,
     count |-> 3,
     apiKey |-> apiKey]

\* handleGenerate without its test of hasApiKey
handleGenerateWithoutCredential ==
    IF Len(images) = 0
    THEN /\ error' = "Please upload at least one reference image"
         /\ UNCHANGED <<generatedImages, selectedImageId, refiningImageId, isLoading,
                        refinementPrompt, modalImage, apiKey, images, isLoadingDefaults,
                        imageCount, nextId, generateCalls, refineCalls>>
    ELSE /\ isLoading' = TRUE
         /\ error' = NoError
         /\ generatedImages' = <<>>
         /\ selectedImageId' = null
         /\ generateCalls' = Append(generateCalls,
                                    [body |-> generateBody, prior |-> generatedImages])
         /\ UNCHANGED <<refiningImageId, refinementPrompt, modalImage, apiKey, images,
                        isLoadingDefaults, imageCount, nextId, refineCalls>>

\* handleGenerate without its reset of the selection
handleGenerateKeepingSelection ==
    IF ~hasApiKey
    THEN /\ error' = "Please enter your Gemini API key first"
         /\ UNCHANGED <<generatedImages, selectedImageId, refiningImageId, isLoading,
                        refinementPrompt, modalImage, apiKey, images, isLoadingDefaults,
                        imageCount, nextId, generateCalls, refineCalls>>
    ELSE IF Len(images) = 0
    THEN /\ error' = "Please upload at least one reference image"
         /\ UNCHANGED <<generatedImages, selectedImageId, refiningImageId, isLoading,
                        refinementPrompt, modalImage, apiKey, images, isLoadingDefaults,
                        imageCount, nextId, generateCalls, refineCalls>>
    ELSE /\ isLoading' = TRUE
         /\ error' = NoError
         /\ generatedImages' = <<>>
         /\ generateCalls' = Append(generateCalls,
                                    [body |-> generateBody, prior |-> generatedImages])
         /\ UNCHANGED <<selectedImageId, refiningImageId, refinementPrompt, modalImage,
                        apiKey, images, isLoadingDefaults, imageCount, nextId, refineCalls>>

\* handleGenerate up to its await of fetch, on the state of Home. `prior`
\* records the forest of the render whose button was clicked; no handler
\* reads it.
handleGenerate ==
    IF ~hasApiKey
    THEN /\ error' = "Please enter your Gemini API key first"
         /\ UNCHANGED <<generatedImages, selectedImageId, refiningImageId, isLoading,
                        refinementPrompt, modalImage, apiKey, images, isLoadingDefaults,
                        imageCount, nextId, generateCalls, refineCalls>>
    ELSE IF Len(images) = 0
    THEN /\ error' = "Please upload at least one reference image"
         /\ UNCHANGED <<generatedImages, selectedImageId, refiningImageId, isLoading,
                        refinementPrompt, modalImage, apiKey, images, isLoadingDefaults,
                        imageCount, nextId, generateCalls, refineCalls>>
    ELSE /\ isLoading' = TRUE
         /\ error' = NoError
         /\ generatedImages' = <<>>
         /\ selectedImageId' = null
         /\ generateCalls' = Append(generateCalls,
                                    [body |-> generateBody, prior |-> generatedImages])
         /\ UNCHANGED <<refiningImageId, refinementPrompt, modalImage, apiKey, images,
                        isLoadingDefaults, imageCount, nextId, refineCalls>>

\* the "Generate" button: disabled={!canGenerate}
clickGenerate ==
    /\ pageClickable
    /\ canGenerate
    /\ handleGenerate
    /\ UNCHANGED outsideHome

\* handleGenerate from the 200 response carrying data.images on
generateSucceeded(call, dataImages) ==
    /\ generatedImages' = Wrap(dataImages, nextId)
    /\ nextId' = nextId + Successes(dataImages)
    /\ isLoading' = FALSE
    /\ UNCHANGED <<selectedImageId, refiningImageId, error, refinementPrompt, modalImage,
                   apiKey, images, isLoadingDefaults, imageCount, refineCalls, outsideHome>>

\* handleGenerate from a failure of the call on: its catch and finally blocks
generateFailed(call, kind) ==
    /\ error' = FailureMessage(kind, "Failed to generate images")
    /\ isLoading' = FALSE
    /\ UNCHANGED <<generatedImages, selectedImageId, refiningImageId, refinementPrompt,
                   modalImage, apiKey, images, isLoadingDefaults, imageCount, nextId,
                   refineCalls, outsideHome>>

generateResponseOk ==
    \E i \in 1..Len(generateCalls) :
        \E dataImages \in Responses(generateCalls[i].body.count) :
            /\ nextId + Successes(dataImages) <= MaxIds + 1
            /\ generateCalls' = RemoveAt(generateCalls, i)
            /\ generateSucceeded(generateCalls[i], dataImages)

generateResponseFailed ==
    \E i \in 1..Len(generateCalls) :
        \E kind \in FailureKinds :
            /\ generateCalls' = RemoveAt(generateCalls, i)
            /\ generateFailed(generateCalls[i], kind)

\* handleRefine without its test of the trimmed instruction
handleRefineAnyInstruction(parentImage) ==
    IF ~hasApiKey
    THEN /\ error' = "Please enter your Gemini API key first"
         /\ UNCHANGED <<generatedImages, selectedImageId, refiningImageId, isLoading,
                        refinementPrompt, modalImage, apiKey, images, isLoadingDefaults,
                        imageCount, nextId, generateCalls, refineCalls>>
    ELSE /\ refiningImageId' = parentImage.id
         /\ error' = NoError
         /\ refineCalls' = Append(refineCalls,
                                  [parentImage |-> parentImage,
                                   body |-> refineBody(parentImage),
                                   prior |-> generatedImages])
         /\ UNCHANGED <<generatedImages, selectedImageId, isLoading, refinementPrompt,
                        modalImage, apiKey, images, isLoadingDefaults, imageCount, nextId,
                        generateCalls>>

\* handleRefine issuing its fetch a second time
handleRefineSendingTwice(parentImage) ==
    IF trim(refinementPrompt) = ""
    THEN UNCHANGED appVars
    ELSE IF ~hasApiKey
    THEN /\ error' = "Please enter your Gemini API key first"
         /\ UNCHANGED <<generatedImages, selectedImageId, refiningImageId, isLoading,
                        refinementPrompt, modalImage, apiKey, images, isLoadingDefaults,
                        imageCount, nextId, generateCalls, refineCalls>>
    ELSE /\ refiningImageId' = parentImage.id
         /\ error' = NoError
         /\ refineCalls' = refineCalls
                             \o <<[parentImage |-> parentImage,
                                   body |-> refineBody(parentImage),
                                   prior |-> generatedImages],
                                  [parentImage |-> parentImage,
                                   body |-> refineBody(parentImage),
                                   prior |-> generatedImages]>>
         /\ UNCHANGED <<generatedImages, selectedImageId, isLoading, refinementPrompt,
                        modalImage, apiKey, images, isLoadingDefaults, imageCount, nextId,
                        generateCalls>>

\* handleRefine(parentImage) up to its await of fetch, on the state of
\* Home. `prior` records the
\* forest of the render whose button was clicked; no handler reads it.
handleRefine(parentImage) ==
    IF trim(refinementPrompt) = ""
    THEN UNCHANGED appVars
    ELSE IF ~hasApiKey
    THEN /\ error' = "Please enter your Gemini API key first"
         /\ UNCHANGED <<generatedImages, selectedImageId, refiningImageId, isLoading,
                        refinementPrompt, modalImage, apiKey, images, isLoadingDefaults,
                        imageCount, nextId, generateCalls, refineCalls>>
    ELSE /\ refiningImageId' = parentImage.id
         /\ error' = NoError
         /\ refineCalls' = Append(refineCalls,
                                  [parentImage |-> parentImage,
                                   body |-> refineBody(parentImage),
                                   prior |-> generatedImages])
         /\ UNCHANGED <<generatedImages, selectedImageId, isLoading, refinementPrompt,
                        modalImage, apiKey, images, isLoadingDefaults, imageCount, nextId,
                        generateCalls>>

\* the "Refine" button of the root panel (page.tsx:723) and of a RefinementTree
\* (page.tsx:204): disabled={!refinementPrompt.trim() || refiningImageId !== null}
clickRefineRoot ==
    /\ pageClickable
    /\ selectedImageId # null
    /\ \E i \in 1..Len(generatedImages) : generatedImages[i].id = selectedImageId
    /\ ~refineDisabled
    /\ LET img == findImageById(generatedImages, selectedImageId) IN
       IF img # None THEN handleRefine(img[1]) ELSE UNCHANGED appVars
    /\ UNCHANGED outsideHome

clickRefineInTree ==
    /\ pageClickable
    /\ ~refineDisabled
    /\ \E selectedInThisRow \in RenderedRefinements :
          /\ selectedImageId # null
          /\ selectedInThisRow.id = selectedImageId
          /\ handleRefine(selectedInThisRow)
    /\ UNCHANGED outsideHome

\* the success path attaching to the node selected when the response lands
refineSucceededOnSelection(call, dataImages) ==
    /\ generatedImages' = addRefinementsToImage(generatedImages, selectedImageId,
                                                Wrap(dataImages, nextId))
    /\ nextId' = nextId + Successes(dataImages)
    /\ refinementPrompt' = ""
    /\ selectedImageId' = null
    /\ refiningImageId' = null
    /\ UNCHANGED <<isLoading, error, modalImage, apiKey, images, isLoadingDefaults,
                   imageCount, generateCalls>>

\* handleRefine from the 200 response carrying data.images on, on the state
\* of Home
refineSucceeded(call, dataImages) ==
    /\ generatedImages' = addRefinementsToImage(generatedImages, call.parentImage.id,
                                                Wrap(dataImages, nextId))
    /\ nextId' = nextId + Successes(dataImages)
    /\ refinementPrompt' = ""
    /\ selectedImageId' = null
    /\ refiningImageId' = null
    /\ UNCHANGED <<isLoading, error, modalImage, apiKey, images, isLoadingDefaults,
                   imageCount, generateCalls>>

\* the catch block dropping the forest as well
refineFailedDroppingForest(call, kind) ==
    /\ error' = FailureMessage(kind, "Failed to refine images")
    /\ refiningImageId' = null
    /\ generatedImages' = <<>>
    /\ UNCHANGED <<selectedImageId, isLoading, refinementPrompt,
                   modalImage, apiKey, images, isLoadingDefaults, imageCount, nextId,
                   generateCalls>>

\* the catch block resetting the selection as the success path does
refineFailedResettingSelection(call, kind) ==
    /\ error' = FailureMessage(kind, "Failed to refine images")
    /\ refiningImageId' = null
    /\ selectedImageId' = null
    /\ UNCHANGED <<generatedImages, isLoading, refinementPrompt,
                   modalImage, apiKey, images, isLoadingDefaults, imageCount, nextId,
                   generateCalls>>

\* the failure path without the finally block
refineFailedKeepingMarker(call, kind) ==
    /\ error' = FailureMessage(kind, "Failed to refine images")
    /\ UNCHANGED <<generatedImages, selectedImageId, refiningImageId, isLoading,
                   refinementPrompt, modalImage, apiKey, images, isLoadingDefaults,
                   imageCount, nextId, generateCalls>>

\* handleRefine from a failure of the call on: its catch and finally blocks
refineFailed(call, kind) ==
    /\ error' = FailureMessage(kind, "Failed to refine images")
    /\ refiningImageId' = null
    /\ UNCHANGED <<generatedImages, selectedImageId, isLoading, refinementPrompt,
                   modalImage, apiKey, images, isLoadingDefaults, imageCount, nextId,
                   generateCalls>>

refineResponseOk ==
    \E i \in 1..Len(refineCalls) :
        \E dataImages \in Responses(refineCalls[i].body.count) :
            /\ nextId + Successes(dataImages) <= MaxIds + 1
            /\ refineCalls' = RemoveAt(refineCalls, i)
            /\ refineSucceeded(refineCalls[i], dataImages)
            /\ UNCHANGED outsideHome

refineResponseFailed ==
    \E i \in 1..Len(refineCalls) :
        \E kind \in FailureKinds :
            /\ refineCalls' = RemoveAt(refineCalls, i)
            /\ refineFailed(refineCalls[i], kind)
            /\ UNCHANGED outsideHome

(***************************************************************************)
(* The application: every event of the Home component.                     *)
(***************************************************************************)
Next ==
    \/ \E ok \in DefaultLoadOutcomes : loadDefaults(ok)
    \/ \E apiKeyInput \in {" ", "key"} : handleSaveApiKey(apiKeyInput)
    \/ handleClearApiKey
    \/ \E num \in ImageCountOptions : setImageCount(num)
    \/ \E img \in RenderedRoots \cup RenderedRefinements : onSelect(img)
    \/ \E img \in RenderedRoots \cup RenderedRefinements : onPreview(img.url)
    \/ closeModal
    \/ \E value \in Prompts : onRefinementPromptChange(value)
    \/ \E key \in Keys : onKeyDown(key)
    \/ clickGenerate
    \/ generateResponseOk
    \/ generateResponseFailed
    \/ clickRefineRoot
    \/ clickRefineInTree
    \/ refineResponseOk
    \/ refineResponseFailed

Spec == Init /\ [][Next]_vars

\* The application whose calls to /api/generate settle: the promise of each
\* fetch that handleGenerate and handleRefine await resolves or rejects, and
\* the event loop then runs the rest of the handler.
SpecLive ==
    /\ Spec
    /\ WF_vars(refineResponseOk \/ refineResponseFailed)
    /\ WF_vars(generateResponseOk \/ generateResponseFailed)

(***************************************************************************)
(* The tree functions applied to every forest of at most MaxNodes nodes    *)
(* with unique ids, every target id and every list of new records.         *)
(***************************************************************************)
\* the forests whose nodes carry exactly the ids of S (each once) or some of them
RECURSIVE ForestsOver(_)
ForestsOver(S) ==
    {<<>>} \cup
    UNION {UNION {{<<[NewImage(i, DataUrl("imgA")) EXCEPT !.refinements = children]>> \o rest :
                      children \in ForestsOver(C), rest \in ForestsOver((S \ {i}) \ C)} :
                  C \in SUBSET (S \ {i})} :
           i \in S}

\* the lists of freshly made records handed to addRefinementsToImage
NewRecords ==
    {[i \in 1..n |-> NewImage(MaxNodes + i, DataUrl(IF i % 2 = 1 THEN "imgA" ELSE "imgB"))] :
        n \in 0..MaxNew}

InitTree ==
    /\ selectedImageId = null
    /\ refiningImageId = null
    /\ isLoading = FALSE
    /\ error = NoError
    /\ refinementPrompt = ""
    /\ modalImage = None
    /\ apiKey = ""
    /\ images = <<>>
    /\ isLoadingDefaults = TRUE
    /\ imageCount = 5
    /\ nextId = MaxNodes + MaxNew + 1
    /\ generateCalls = <<>>
    /\ refineCalls = <<>>
    /\ generatedImages \in ForestsOver(1..MaxNodes)
    /\ targetId \in 1..(MaxNodes + MaxNew)
    /\ newRefinements \in NewRecords
    /\ op = "none"
    /\ result = None
    /\ request = None
    /\ modelCalls = {}
    /\ results = <<>>
    /\ response = None

callFindImageById ==
    /\ op' = "findImageById"
    /\ result' = findImageById(generatedImages, targetId)
    /\ UNCHANGED <<appVars, targetId, newRefinements, serverVars>>

callAddRefinementsToImage ==
    /\ op' = "addRefinementsToImage"
    /\ result' = addRefinementsToImage(generatedImages, targetId, newRefinements)
    /\ UNCHANGED <<appVars, targetId, newRefinements, serverVars>>

callFindSiblings ==
    /\ op' = "findSiblings"
    /\ result' = findSiblings(generatedImages, targetId)
    /\ UNCHANGED <<appVars, targetId, newRefinements, serverVars>>

NextTree ==
    \/ callFindImageById
    \/ callAddRefinementsToImage
    \/ callFindSiblings

SpecTree == InitTree /\ [][NextTree]_vars

(***************************************************************************)
(* handleKeyDown applied to every forest of at most MaxNodes nodes, with   *)
(* every selection the forest allows, the preview modal open or closed.    *)
(* op and targetId record the key pressed last and the selection it found. *)
(***************************************************************************)
InitKeys ==
    /\ generatedImages \in ForestsOver(1..MaxNodes)
    /\ selectedImageId \in {null} \cup {n.id : n \in RenderedRoots \cup RenderedRefinements}
    /\ modalImage \in {None, DataUrl("imgA")}
    /\ refiningImageId = null
    /\ isLoading = FALSE
    /\ error = NoError
    /\ refinementPrompt = ""
    /\ apiKey = "key"
    /\ images = LoadedDefaults
    /\ isLoadingDefaults = FALSE
    /\ imageCount = 5
    /\ nextId = MaxNodes + 1
    /\ generateCalls = <<>>
    /\ refineCalls = <<>>
    /\ targetId = null
    /\ newRefinements = <<>>
    /\ op = "none"
    /\ result = None
    /\ request = None
    /\ modelCalls = {}
    /\ results = <<>>
    /\ response = None

callHandleKeyDown(key) ==
    /\ op' = key
    /\ targetId' = selectedImageId
    /\ handleKeyDown(key)
    /\ UNCHANGED <<newRefinements, result, serverVars>>

NextKeys == \E key \in Keys : callHandleKeyDown(key)

SpecKeys == InitKeys /\ [][NextKeys]_vars

(***************************************************************************)
(* handleGenerate and handleRefine invoked directly, whatever the buttons  *)
(* that call them allow, with or without a credential, reference images    *)
(* and an instruction. op and targetId record the handler invoked last and *)
(* the id of the image it was given.                                       *)
(***************************************************************************)
InitGuards ==
    /\ generatedImages \in ForestsOver({1, 2})
    /\ selectedImageId \in {null} \cup {n.id : n \in RenderedRoots \cup RenderedRefinements}
    /\ refinementPrompt \in Prompts
    /\ apiKey \in {"", "key"}
    /\ images \in {<<>>, LoadedDefaults,
                   <<loadDefaultImage("reference2.png"), loadDefaultImage("reference1.png")>>}
    /\ modalImage = None
    /\ refiningImageId = null
    /\ isLoading = FALSE
    /\ error = NoError
    /\ isLoadingDefaults = FALSE
    /\ imageCount = 5
    /\ nextId = 3
    /\ generateCalls = <<>>
    /\ refineCalls = <<>>
    /\ targetId = null
    /\ newRefinements = <<>>
    /\ op = "none"
    /\ result = None
    /\ request = None
    /\ modelCalls = {}
    /\ results = <<>>
    /\ response = None

callHandleGenerate ==
    /\ Len(generateCalls) < MaxCalls
    /\ op' = "handleGenerate"
    /\ targetId' = null
    /\ handleGenerate
    /\ UNCHANGED <<newRefinements, result, serverVars>>

callHandleRefine(parentImage) ==
    /\ Len(refineCalls) < MaxCalls
    /\ op' = "handleRefine"
    /\ targetId' = parentImage.id
    /\ handleRefine(parentImage)
    /\ UNCHANGED <<newRefinements, result, serverVars>>

NextGuards ==
    \/ callHandleGenerate
    \/ \E parentImage \in RenderedRoots \cup RenderedRefinements : callHandleRefine(parentImage)

SpecGuards == InitGuards /\ [][NextGuards]_vars

(***************************************************************************)
(* The landing of a refinement's response: a refinement was submitted for  *)
(* the selected node of a forest, and while its call is pending the user   *)
(* clicks nodes and presses arrow keys; then the response arrives. `op`    *)
(* names the path handleRefine took, `targetId` holds the node that was    *)
(* selected when the response arrived and `result` the node the refinement *)
(* was submitted for.                                                      *)
(***************************************************************************)
InitLanding ==
    /\ generatedImages \in ForestsOver(1..MaxPending)
    /\ selectedImageId \in {n.id : n \in RenderedRoots \cup RenderedRefinements}
    /\ refiningImageId = selectedImageId
    /\ refinementPrompt = "brighter colors"
    /\ apiKey = "key"
    /\ images = LoadedDefaults
    /\ refineCalls = LET parentImage == findImageById(generatedImages, selectedImageId)[1]
                     IN <<[parentImage |-> parentImage,
                           body |-> refineBody(parentImage),
                           prior |-> generatedImages]>>
    /\ modalImage = None
    /\ isLoading = FALSE
    /\ error = NoError
    /\ isLoadingDefaults = FALSE
    /\ imageCount = 5
    /\ nextId = MaxPending + 1
    /\ generateCalls = <<>>
    /\ targetId = null
    /\ newRefinements = <<>>
    /\ op = "none"
    /\ result = None
    /\ request = None
    /\ modelCalls = {}
    /\ results = <<>>
    /\ response = None

selectWhilePending ==
    /\ refineCalls # <<>>
    /\ \E img \in RenderedRoots \cup RenderedRefinements : onSelect(img)

navigateWhilePending ==
    /\ refineCalls # <<>>
    /\ \E key \in Keys : onKeyDown(key)

callRefineSucceeded(dataImages) ==
    /\ refineCalls # <<>>
    /\ op' = "refineSucceeded"
    /\ targetId' = selectedImageId
    /\ result' = Some(refineCalls[1].parentImage.id)
    /\ newRefinements' = Wrap(dataImages, nextId)
    /\ refineCalls' = Tail(refineCalls)
    /\ refineSucceeded(refineCalls[1], dataImages)
    /\ UNCHANGED serverVars

callRefineFailed(kind) ==
    /\ refineCalls # <<>>
    /\ op' = "refineFailed"
    /\ targetId' = selectedImageId
    /\ result' = Some(refineCalls[1].parentImage.id)
    /\ refineCalls' = Tail(refineCalls)
    /\ refineFailed(refineCalls[1], kind)
    /\ UNCHANGED <<newRefinements, serverVars>>

NextLanding ==
    \/ selectWhilePending
    \/ navigateWhilePending
    \/ \E dataImages \in Responses(3) : callRefineSucceeded(dataImages)
    \/ \E kind \in FailureKinds : callRefineFailed(kind)

SpecLanding == InitLanding /\ [][NextLanding]_vars

(***************************************************************************)
(* The endpoint POST /api/generate of src/src/app/api/generate/route.ts.   *)
(*                                                                         *)
(* A field of the JSON body that is absent (undefined) is None and one     *)
(* that is present is Some(value); likewise the optional fields image and  *)
(* error of what generateSingleImage returns. Indexes count from 0 as in   *)
(* the code; the sequence that stands for an array holds the element of    *)
(* index i at position i + 1.                                              *)
(***************************************************************************)
\* !x for an optional string x
Falsy(x) == x = None \/ x = Some("")

\* what request.json() gives: a rejection for a body that is not JSON, and
\* the fields of the body otherwise
Requests ==
    {[json |-> "invalid", prompt |-> None, referenceImages |-> None,
      count |-> None, apiKey |-> None]}
    \cup
    [json : {"object"},
     prompt : {None, Some(""), Some("prompt")},
     referenceImages : {None, Some(<<>>),
                        Some(<<[data |-> "reference", mimeType |-> "image/png"]>>)},
     count : {None, Some(0), Some(2)},
     apiKey : {None, Some(""), Some("key")}]

\* const { count = 5 } = body
CountOf(body) == IF body.count = None THEN 5 ELSE body.count[1]

\* the ways genai.models.generateContent ends: a response, whose first
\* candidate may lack parts and whose parts may lack inline data, or an
\* exception, an Error with its message or some other value
ModelOutcomes ==
    {[kind |-> "response", parts |-> None],
     [kind |-> "response", parts |-> Some(<<"text">>)],
     [kind |-> "response", parts |-> Some(<<"text", "imgA">>)],
     [kind |-> "Error", parts |-> Some(<<"quota exceeded">>)],
     [kind |-> "Error", parts |-> Some(<<"">>)],
     [kind |-> "thrown", parts |-> None]}

\* generateSingleImage(genai, prompt, referenceImages, index) from the end of
\* its call of generateContent on; a part that is not "text" is inline data
generateSingleImage(index, outcome) ==
    IF outcome.kind = "response"
    THEN IF outcome.parts = None
         THEN [index |-> index, image |-> None, error |-> Some("No response from model")]
         ELSE LET inline == SelectSeq(outcome.parts[1], LAMBDA part : part # "text") IN
              IF inline # <<>>
              THEN [index |-> index, image |-> DataUrl(inline[1]), error |-> None]
              ELSE [index |-> index, image |-> None, error |-> Some("No image in response")]
    ELSE IF outcome.kind = "Error"
    THEN [index |-> index, image |-> None, error |-> Some(outcome.parts[1][1])]
    ELSE [index |-> index, image |-> None, error |-> Some("Unknown error")]

\* Promise.all: the value of each promise at the position of the promise,
\* whatever the order in which they resolved
PromiseAll(settled, count) ==
    [k \in 1..count |->
        settled[CHOOSE j \in 1..Len(settled) : settled[j].index = k - 1]]

\* results.sort with the comparator turned round: (a, b) => b.index - a.index
RECURSIVE SortByIndexDescending(_)
SortByIndexDescending(rs) ==
    IF rs = <<>> THEN <<>>
    ELSE LET r == Head(rs)
             rest == SortByIndexDescending(Tail(rs))
         IN SelectSeq(rest, LAMBDA x : x.index > r.index) \o <<r>>
              \o SelectSeq(rest, LAMBDA x : x.index <= r.index)

\* results.sort((a, b) => a.index - b.index), a stable sort
RECURSIVE SortByIndex(_)
SortByIndex(rs) ==
    IF rs = <<>> THEN <<>>
    ELSE LET r == Head(rs)
             rest == SortByIndex(Tail(rs))
         IN SelectSeq(rest, LAMBDA x : x.index < r.index) \o <<r>>
              \o SelectSeq(rest, LAMBDA x : x.index >= r.index)

\* sortedResults.map((r) => r.image || null)
imagesOf(sortedResults) ==
    [k \in 1..Len(sortedResults) |-> sortedResults[k].image]

\* sortedResults.filter((r) => r.error).map((r) => ({index: r.index, error: r.error}))
errorsOf(sortedResults) ==
    LET failed == SelectSeq(sortedResults, LAMBDA r : ~Falsy(r.error)) IN
    [k \in 1..Len(failed) |-> [index |-> failed[k].index, error |-> failed[k].error[1]]]

\* NextResponse.json({ error }, { status })
ErrorResponse(status, message) ==
    Some([status |-> status, error |-> Some(message), images |-> <<>>, errors |-> <<>>])

\* NextResponse.json({ images, errors })
OkResponse(all) ==
    LET sortedResults == SortByIndex(all) IN
    Some([status |-> 200, error |-> None,
          images |-> imagesOf(sortedResults), errors |-> errorsOf(sortedResults)])

InitServer ==
    /\ request \in Requests
    /\ modelCalls = {}
    /\ results = <<>>
    /\ response = None
    /\ op = "none"
    /\ targetId = null
    /\ newRefinements = <<>>
    /\ result = None
    /\ InitApp

\* POST without its test of referenceImages
POSTWithoutReferenceCheck ==
    /\ op = "none"
    /\ op' = "POST"
    /\ results' = <<>>
    /\ IF request.json = "invalid"
       THEN /\ response' = ErrorResponse(500, "Unexpected end of JSON input")
            /\ modelCalls' = {}
       ELSE IF Falsy(request.apiKey)
       THEN /\ response' = ErrorResponse(401,
                              "API key is required. Please enter your Gemini API key.")
            /\ modelCalls' = {}
       ELSE IF Falsy(request.prompt)
       THEN /\ response' = ErrorResponse(400,
                              "Prompt and at least one reference image are required")
            /\ modelCalls' = {}
       ELSE /\ response' = None
            /\ modelCalls' = 0..(CountOf(request) - 1)
    /\ UNCHANGED <<appVars, targetId, newRefinements, result, request>>

\* POST up to its await of Promise.all: it returns a response at once, or has
\* called generateSingleImage for every index, each of which has called
\* generateContent
POST ==
    /\ op = "none"
    /\ op' = "POST"
    /\ results' = <<>>
    /\ IF request.json = "invalid"
       THEN /\ response' = ErrorResponse(500, "Unexpected end of JSON input")
            /\ modelCalls' = {}
       ELSE IF Falsy(request.apiKey)
       THEN /\ response' = ErrorResponse(401,
                              "API key is required. Please enter your Gemini API key.")
            /\ modelCalls' = {}
       ELSE IF \/ Falsy(request.prompt)
               \/ request.referenceImages = None
               \/ Len(request.referenceImages[1]) = 0
       THEN /\ response' = ErrorResponse(400,
                              "Prompt and at least one reference image are required")
            /\ modelCalls' = {}
       ELSE /\ response' = None
            /\ modelCalls' = 0..(CountOf(request) - 1)
    /\ UNCHANGED <<appVars, targetId, newRefinements, result, request>>

\* one of the awaited generateContent calls ends and its generateSingleImage
\* returns
generateSingleImageReturns ==
    \E index \in modelCalls :
        \E outcome \in ModelOutcomes :
            /\ modelCalls' = modelCalls \ {index}
            /\ results' = Append(results, generateSingleImage(index, outcome))
            /\ UNCHANGED <<appVars, treeVars, request, response>>

\* POST from the resolution of Promise.all on
POSTReturns ==
    /\ op = "POST"
    /\ response = None
    /\ modelCalls = {}
    /\ response' = OkResponse(PromiseAll(results, CountOf(request)))
    /\ UNCHANGED <<appVars, treeVars, request, modelCalls, results>>

NextServer ==
    \/ POST
    \/ generateSingleImageReturns
    \/ POSTReturns

SpecServer == InitServer /\ [][NextServer]_vars

(***************************************************************************)
(* What the claims speak of, defined on the forest as a set of nodes and   *)
(* not through the tree functions.                                         *)
(***************************************************************************)
\* every node of a forest, at any depth
RECURSIVE Nodes(_)
Nodes(F) ==
    {F[i] : i \in 1..Len(F)} \cup UNION {Nodes(F[i].refinements) : i \in 1..Len(F)}

NodeIds(F) == {n.id : n \in Nodes(F)}

\* the nodes of F that carry the id
NodesWithId(F, id) == {n \in Nodes(F) : n.id = id}

\* the node of F that carries the id, when there is exactly one
NodeOf(F, id) == CHOOSE n \in Nodes(F) : n.id = id

\* the ids of a sequence of nodes, in order
IdsOf(seq) == [i \in 1..Len(seq) |-> seq[i].id]

\* the ids of the children of the node of F that carries the id, in order
ChildIds(F, id) == IdsOf(NodeOf(F, id).refinements)

IsRoot(F, id) == \E i \in 1..Len(F) : F[i].id = id

\* the nodes of F that have a child carrying the id
ParentsOf(F, id) ==
    {p \in Nodes(F) : \E j \in 1..Len(p.refinements) : p.refinements[j].id = id}

IsPrefix(s, t) == Len(s) <= Len(t) /\ \A i \in 1..Len(s) : s[i] = t[i]

(***************************************************************************)
(* C1-C4: the tree functions.                                              *)
(***************************************************************************)
\* C1: for a target id that names a node of the forest, at any depth,
\* addRefinementsToImage returns a forest in which that node's children are
\* its previous children, in their order, followed by the new records, in
\* their order, and findImageById then finds each new record by its id.
C1_AddAppendsToTarget ==
    (op = "addRefinementsToImage" /\ targetId \in NodeIds(generatedImages)) =>
        /\ Cardinality(NodesWithId(result, targetId)) = 1
        /\ NodeOf(result, targetId).refinements =
               NodeOf(generatedImages, targetId).refinements \o newRefinements
        /\ \A i \in 1..Len(newRefinements) :
               findImageById(result, newRefinements[i].id) = Some(newRefinements[i])

\* new records were added to a node below the roots that already had children
C1_Witness ==
    /\ op = "addRefinementsToImage"
    /\ targetId \in NodeIds(generatedImages)
    /\ ~IsRoot(generatedImages, targetId)
    /\ NodeOf(generatedImages, targetId).refinements # <<>>
    /\ Len(newRefinements) = MaxNew
    /\ Len(NodeOf(result, targetId).refinements) >= 1 + MaxNew

\* C2: findImageById returns the one node that carries the id when the forest
\* has such a node, root or nested at any depth, and null when it has none.
C2_FindLocatesNode ==
    op = "findImageById" =>
        IF targetId \in NodeIds(generatedImages)
        THEN /\ Cardinality(NodesWithId(generatedImages, targetId)) = 1
             /\ result = Some(NodeOf(generatedImages, targetId))
        ELSE result = None

\* a node two levels below the roots, in a later subtree than the first, was found
C2_Witness ==
    /\ op = "findImageById"
    /\ result # None
    /\ ~IsRoot(generatedImages, targetId)
    /\ \A p \in ParentsOf(generatedImages, targetId) : ~IsRoot(generatedImages, p.id)
    /\ Len(generatedImages) >= 2
    /\ generatedImages[1].id # targetId
    /\ targetId \notin NodeIds(generatedImages[1].refinements)

\* C3: findSiblings returns the root sequence when the id names a root, the
\* children sequence of the immediate parent when the id names a nested node
\* at any depth, and null when the id names no node.
C3_FindSiblings ==
    op = "findSiblings" =>
        IF IsRoot(generatedImages, targetId)
        THEN result = Some(generatedImages)
        ELSE IF targetId \in NodeIds(generatedImages)
        THEN /\ Cardinality(ParentsOf(generatedImages, targetId)) = 1
             /\ \A p \in ParentsOf(generatedImages, targetId) :
                    result = Some(p.refinements)
        ELSE result = None

\* the siblings of a node two levels below the roots were returned
C3_Witness ==
    /\ op = "findSiblings"
    /\ result # None
    /\ ~IsRoot(generatedImages, targetId)
    /\ \A p \in ParentsOf(generatedImages, targetId) : ~IsRoot(generatedImages, p.id)
    /\ Len(result[1]) >= 2

\* C4: for a target id that names no node of the forest, addRefinementsToImage
\* returns a forest equal to the one it was given, whatever the new records.
C4_AddMissingTargetIsNoOp ==
    (op = "addRefinementsToImage" /\ targetId \notin NodeIds(generatedImages)) =>
        result = generatedImages

\* new records were offered to a forest of several levels that lacks the target
C4_Witness ==
    /\ op = "addRefinementsToImage"
    /\ targetId \notin NodeIds(generatedImages)
    /\ newRefinements # <<>>
    /\ \E n \in Nodes(generatedImages) : ~IsRoot(generatedImages, n.id)
    /\ result = generatedImages

(***************************************************************************)
(* C5-C10: generation and refinement.                                      *)
(***************************************************************************)
\* the step in which the i-th pending refinement receives the 200 response A
RefineSucceedsStep(i, A) ==
    /\ refineCalls' = RemoveAt(refineCalls, i)
    /\ refineSucceeded(refineCalls[i], A)

\* the step in which the i-th pending refinement fails
RefineFailsStep(i, kind) ==
    /\ refineCalls' = RemoveAt(refineCalls, i)
    /\ refineFailed(refineCalls[i], kind)

\* the step in which the i-th pending generation receives the 200 response A
GenerateSucceedsStep(i, A) ==
    /\ generateCalls' = RemoveAt(generateCalls, i)
    /\ generateSucceeded(generateCalls[i], A)

\* the step in which the i-th pending generation fails
GenerateFailsStep(i, kind) ==
    /\ generateCalls' = RemoveAt(generateCalls, i)
    /\ generateFailed(generateCalls[i], kind)

NonNull(A) == SelectSeq(A, LAMBDA u : u # None)

\* `recs` are records made for the urls, in order: fresh distinct ids, no children
FreshRecordsFor(recs, urls) ==
    /\ Len(recs) = Len(urls)
    /\ \A k \in 1..Len(recs) :
          /\ recs[k].url = urls[k]
          /\ recs[k].refinements = <<>>
          /\ recs[k].id >= nextId
          /\ recs[k].id \notin NodeIds(generatedImages)
          /\ \A m \in 1..Len(recs) : m # k => recs[m].id # recs[k].id

\* C5: when a refinement of a node X of the forest succeeds, X gains as new
\* children exactly the non-null images of the response, in response order,
\* each with a fresh id and no children; the children sequence of every other
\* node is unchanged; the selection is reset to none.
C5_RefineSuccessAttaches ==
    [][\A i \in {j \in 1..Len(refineCalls) :
                   error' = error /\ refineCalls' = RemoveAt(refineCalls, j)} :
       \A A \in {B \in Responses(refineCalls[i].body.count) :
                    nextId' = nextId + Successes(B)} :
          LET X == refineCalls[i].parentImage.id IN
          (RefineSucceedsStep(i, A) /\ X \in NodeIds(generatedImages)) =>
             /\ Cardinality(NodesWithId(generatedImages', X)) = 1
             /\ LET old == NodeOf(generatedImages, X).refinements
                    new == NodeOf(generatedImages', X).refinements
                IN /\ Len(new) = Len(old) + Len(NonNull(A))
                   /\ SubSeq(new, 1, Len(old)) = old
                   /\ FreshRecordsFor(SubSeq(new, Len(old) + 1, Len(new)), NonNull(A))
             /\ \A n \in Nodes(generatedImages) :
                   n.id # X =>
                      /\ Cardinality(NodesWithId(generatedImages', n.id)) = 1
                      /\ ChildIds(generatedImages', n.id) = IdsOf(n.refinements)
             /\ IdsOf(generatedImages') = IdsOf(generatedImages)
             /\ selectedImageId' = null
      ]_vars

\* a refinement has given a node three leaves as children, in response order;
\* no refinement is pending and nothing is selected
C5_Witness ==
    /\ refineCalls = <<>>
    /\ selectedImageId = null
    /\ refinementPrompt = ""
    /\ \E n \in Nodes(generatedImages) :
          /\ Len(n.refinements) = 3
          /\ \A k \in 1..3 : n.refinements[k].refinements = <<>>
          /\ n.refinements[1].url # n.refinements[2].url

\* C6: the children sequence of a node is append-only: over every step, for
\* every node that stays in the forest, the children it had are a prefix of
\* the children it has, so that successive refinements of one node leave the
\* first batch's images followed by the second batch's.
C6_ChildrenAppendOnly ==
    [][generatedImages' # generatedImages =>
          \A id \in NodeIds(generatedImages) \cap NodeIds(generatedImages') :
              IsPrefix(ChildIds(generatedImages, id), ChildIds(generatedImages', id))
      ]_vars

\* a node has three children of which two neighbours carry the same payload:
\* they come from different batches, the later one after the earlier one
C6_Witness ==
    \E n \in Nodes(generatedImages) :
        /\ Len(n.refinements) >= 3
        /\ \E k \in 1..(Len(n.refinements) - 1) :
              /\ n.refinements[k].url = n.refinements[k + 1].url
              /\ n.refinements[k].id < n.refinements[k + 1].id

\* C7: when an initial generation succeeds with the array A, the roots are
\* exactly the non-null entries of A in slot order, each with a fresh id and
\* no children, no node of the forest from before the generation remains,
\* and nothing is selected.
C7_GenerateSuccessReplaces ==
    [][\A i \in {j \in 1..Len(generateCalls) :
                   error' = error /\ generateCalls' = RemoveAt(generateCalls, j)} :
       \A A \in {B \in Responses(generateCalls[i].body.count) :
                    nextId' = nextId + Successes(B)} :
          GenerateSucceedsStep(i, A) =>
             /\ FreshRecordsFor(generatedImages', NonNull(A))
             /\ NodeIds(generatedImages') \cap NodeIds(generateCalls[i].prior) = {}
             /\ selectedImageId' = null
      ]_vars

\* three roots made by a generation that replaced an earlier forest
C7_Witness ==
    /\ generateCalls = <<>>
    /\ ~isLoading
    /\ selectedImageId = null
    /\ Len(generatedImages) = 3
    /\ generatedImages[1].id > 1
    /\ generatedImages[1].url # generatedImages[2].url
    /\ \A k \in 1..3 : generatedImages[k].refinements = <<>>

\* C8 as stated: when a refinement's call fails, the forest afterwards is the
\* forest from before the refinement was submitted, and an error is set.
C8_AsStated ==
    [][\A i \in {j \in 1..Len(refineCalls) : refineCalls' = RemoveAt(refineCalls, j)} :
       \A kind \in FailureKinds :
          RefineFailsStep(i, kind) =>
             /\ generatedImages' = refineCalls[i].prior
             /\ error' # NoError
      ]_vars

\* C8, amended: when a refinement's call fails, the failure leaves the forest
\* as it was just before (no child is attached to any node) and sets an
\* error; that forest is the one from before the refinement was submitted,
\* or, when a generation was started in between, one that shares no node
\* with it.
C8_RefineFailureLeavesForest ==
    [][\A i \in {j \in 1..Len(refineCalls) : refineCalls' = RemoveAt(refineCalls, j)} :
       \A kind \in FailureKinds :
          RefineFailsStep(i, kind) =>
             /\ generatedImages' = generatedImages
             /\ error' # NoError
             /\ \/ generatedImages' = refineCalls[i].prior
                \/ NodeIds(generatedImages') \cap NodeIds(refineCalls[i].prior) = {}
      ]_vars

\* a refinement has failed: its error shows, nothing is pending, and the
\* selected node, which the refinement was for, has no children
C8_Witness ==
    /\ error = "Failed to refine images"
    /\ refineCalls = <<>>
    /\ refiningImageId = null
    /\ selectedImageId \in NodeIds(generatedImages)
    /\ NodeOf(generatedImages, selectedImageId).refinements = <<>>
    /\ trim(refinementPrompt) # ""

\* C9: when an initial generation's call fails as a whole, one error message
\* is set and the forest is the forest from before the generation was
\* requested.
C9_GenerateFailureLeavesForest ==
    [][\A i \in {j \in 1..Len(generateCalls) : generateCalls' = RemoveAt(generateCalls, j)} :
       \A kind \in FailureKinds :
          GenerateFailsStep(i, kind) =>
             /\ generatedImages' = generateCalls[i].prior
             /\ error' # NoError
      ]_vars

\* C10: at most one refinement call is in flight, and one is in flight
\* exactly while the pending-refinement marker is set, whichever node is
\* selected.
C10_OneRefinementInFlight ==
    /\ Len(refineCalls) <= 1
    /\ refiningImageId # null <=> Len(refineCalls) = 1
    /\ \A i \in 1..Len(refineCalls) : refineCalls[i].parentImage.id = refiningImageId

\* a refinement is pending while another node is selected with an instruction
\* typed in
C10_Witness ==
    /\ Len(refineCalls) = 1
    /\ refiningImageId # null
    /\ selectedImageId \in NodeIds(generatedImages)
    /\ selectedImageId # refiningImageId
    /\ trim(refinementPrompt) # ""
    /\ modalImage = None

(***************************************************************************)
(* C11: a refinement overtaken by a generation.                            *)
(***************************************************************************)
\* a generation has been started since the i-th pending refinement was
\* submitted: the roots are no longer those of the submission (handleGenerate
\* is the only handler that changes the root sequence)
GenerationStartedSince(i) ==
    IdsOf(generatedImages) # IdsOf(refineCalls[i].prior)

\* C11: when a generation was started while a refinement was in flight, the
\* refinement's result is discarded when it lands, whether it lands before or
\* after the generation's: the forest is left as it was and holds none of the
\* records made from the response; and no record enters the forest in a later
\* step, since a node that enters the forest carries an id handed out in
\* that very step.
C11_StaleRefinementDiscarded ==
    [][/\ generatedImages' # generatedImages =>
              \A id \in NodeIds(generatedImages') \ NodeIds(generatedImages) :
                  id >= nextId /\ id < nextId'
       /\ \A i \in {j \in 1..Len(refineCalls) :
                      error' = error /\ refineCalls' = RemoveAt(refineCalls, j)} :
          \A A \in {B \in Responses(refineCalls[i].body.count) :
                       nextId' = nextId + Successes(B)} :
             (RefineSucceedsStep(i, A) /\ GenerationStartedSince(i)) =>
                /\ generatedImages' = generatedImages
                /\ \A id \in nextId..(nextId' - 1) : id \notin NodeIds(generatedImages')
      ]_vars

\* roots without children, none selected, nothing in flight, and an id handed
\* out after all of theirs: a refinement submitted for the previous forest
\* has landed after the generation that made these roots
C11_Witness ==
    /\ refineCalls = <<>>
    /\ generateCalls = <<>>
    /\ refiningImageId = null
    /\ selectedImageId = null
    /\ refinementPrompt = ""
    /\ Len(generatedImages) >= 1
    /\ \A k \in 1..Len(generatedImages) : generatedImages[k].refinements = <<>>
    /\ \E id \in 1..(nextId - 1) : \A n \in Nodes(generatedImages) : n.id < id

(***************************************************************************)
(* C12-C13: keyboard navigation.                                           *)
(***************************************************************************)
\* the sequence of F in which the node carrying the id stands: the roots, or
\* the children of its parent
SiblingsOf(F, id) ==
    IF IsRoot(F, id) THEN F ELSE (CHOOSE p \in ParentsOf(F, id) : TRUE).refinements

\* the index, counted from 0, at which the id stands in the sequence
IndexIn(seq, id) == (CHOOSE k \in 1..Len(seq) : seq[k].id = id) - 1

ArrowKeys == {"ArrowLeft", "ArrowRight"}

\* C12: after a left or right arrow key pressed with the preview modal closed
\* and a node selected that stands at index i (from 0) of its sibling
\* sequence of length n, the selected node is the sibling at index i-1 for
\* left (n-1 when i = 0) and i+1 for right (0 when i = n-1): a member of the
\* same sibling sequence.
C12_ArrowKeyMovesSelection ==
    (op \in ArrowKeys /\ targetId # null /\ modalImage = None) =>
        LET siblings == SiblingsOf(generatedImages, targetId)
            n == Len(siblings)
            i == IndexIn(siblings, targetId)
            newIndex == IF op = "ArrowLeft"
                        THEN (IF i = 0 THEN n - 1 ELSE i - 1)
                        ELSE (IF i = n - 1 THEN 0 ELSE i + 1)
        IN /\ selectedImageId = siblings[newIndex + 1].id
           /\ \E k \in 1..n : siblings[k].id = selectedImageId

\* the right arrow pressed on the last of three siblings below a root has
\* selected the first of them
C12_Witness ==
    /\ op = "ArrowRight"
    /\ modalImage = None
    /\ targetId # null
    /\ ~IsRoot(generatedImages, targetId)
    /\ LET siblings == SiblingsOf(generatedImages, targetId) IN
          /\ Len(siblings) = 3
          /\ siblings[3].id = targetId
          /\ siblings[1].id = selectedImageId

\* C13: a left or right arrow key pressed while no node is selected, or while
\* the preview modal is open, changes neither the selection nor any other
\* state of the component.
C13_ArrowKeyIgnored ==
    [][\A key \in ArrowKeys :
          (callHandleKeyDown(key) /\ (selectedImageId = null \/ modalImage # None)) =>
              UNCHANGED appVars
      ]_vars

\* an arrow key was pressed with the modal open on a selected node that has
\* siblings: the selection is where it was
C13_Witness ==
    /\ op \in ArrowKeys
    /\ modalImage # None
    /\ targetId # null
    /\ selectedImageId = targetId
    /\ Len(SiblingsOf(generatedImages, targetId)) >= 2

(***************************************************************************)
(* C14-C15: what the handlers reject before any call.                      *)
(***************************************************************************)
\* C14: handleRefine invoked while the instruction is empty after trimming
\* whitespace sends no request and changes neither the forest, the selection
\* nor the pending-refinement marker.
C14_EmptyInstructionRejected ==
    [][\A parentImage \in RenderedRoots \cup RenderedRefinements :
          (callHandleRefine(parentImage) /\ trim(refinementPrompt) = "") =>
              UNCHANGED <<generateCalls, refineCalls, generatedImages, selectedImageId,
                          refiningImageId>>
      ]_vars

\* handleRefine was invoked for the selected image with a credential stored
\* and an instruction of whitespace only: no request, no marker
C14_Witness ==
    /\ op = "handleRefine"
    /\ refinementPrompt = " "
    /\ hasApiKey
    /\ targetId # null
    /\ targetId = selectedImageId
    /\ refineCalls = <<>>
    /\ refiningImageId = null

\* C15: with no credential stored, handleGenerate, and handleRefine invoked
\* with an instruction, set the missing-credential error, send no request
\* and change neither the forest, the selection nor the pending-refinement
\* marker.
C15_MissingCredentialRejected ==
    [][/\ (callHandleGenerate /\ ~hasApiKey) =>
              /\ error' = "Please enter your Gemini API key first"
              /\ UNCHANGED <<generateCalls, refineCalls, generatedImages, selectedImageId,
                             refiningImageId>>
       /\ \A parentImage \in RenderedRoots \cup RenderedRefinements :
              (callHandleRefine(parentImage) /\ ~hasApiKey /\ trim(refinementPrompt) # "") =>
                  /\ error' = "Please enter your Gemini API key first"
                  /\ UNCHANGED <<generateCalls, refineCalls, generatedImages,
                                 selectedImageId, refiningImageId>>
      ]_vars

\* handleGenerate was invoked without a credential while reference images
\* were loaded and a node of the forest was selected: the error shows, the
\* forest and the selection are still there, no request was sent
C15_Witness ==
    /\ op = "handleGenerate"
    /\ ~hasApiKey
    /\ error = "Please enter your Gemini API key first"
    /\ Len(images) > 0
    /\ selectedImageId \in NodeIds(generatedImages)
    /\ generateCalls = <<>>
    /\ refineCalls = <<>>
    /\ ~isLoading

(***************************************************************************)
(* C16-C17: the shape of the forest.                                       *)
(***************************************************************************)
\* the number of nodes of a forest, counted where they stand
RECURSIVE CountNodes(_)
CountNodes(F) ==
    IF F = <<>> THEN 0
    ELSE 1 + CountNodes(Head(F).refinements) + CountNodes(Tail(F))

\* C16: in every reachable state no two nodes of the forest, roots or
\* descendants at any depth, carry the same id, and no node's id is carried
\* by one of its descendants.
C16_UniqueIdsAcyclic ==
    /\ CountNodes(generatedImages) = Cardinality(NodeIds(generatedImages))
    /\ \A n \in Nodes(generatedImages) : n.id \notin NodeIds(n.refinements)

\* a root made by a second generation has a child that has a child, and
\* every id handed out so far but the first is in the forest
C16_Witness ==
    /\ \E k \in 1..Len(generatedImages) :
          /\ generatedImages[k].id > 1
          /\ \E c \in 1..Len(generatedImages[k].refinements) :
                generatedImages[k].refinements[c].refinements # <<>>
    /\ CountNodes(generatedImages) = nextId - 2

\* C17: the root sequence is the sequence of images made by the most recent
\* successful generation, in response order (empty before the first one):
\* it changes in no step but the one in which a generation succeeds, which
\* installs the non-null images of its response, in order.
C17_RootsAreLastGeneration ==
    [][IdsOf(generatedImages') # IdsOf(generatedImages) =>
          \E i \in {j \in 1..Len(generateCalls) :
                       generateCalls' = RemoveAt(generateCalls, j)} :
             \E A \in Responses(generateCalls[i].body.count) :
                /\ GenerateSucceedsStep(i, A)
                /\ Len(generatedImages') = Len(NonNull(A))
                /\ \A k \in 1..Len(generatedImages') :
                       generatedImages'[k].url = NonNull(A)[k]
      ]_vars

(***************************************************************************)
(* C18-C20: the endpoint.                                                  *)
(***************************************************************************)
CredentialMissing == Falsy(request.apiKey)

PromptMissing == Falsy(request.prompt)

ReferencesMissingOrEmpty ==
    request.referenceImages = None \/ request.referenceImages[1] = <<>>

\* the request is a batch request the endpoint accepts
ValidRequest ==
    /\ request.json = "object"
    /\ ~CredentialMissing
    /\ ~PromptMissing
    /\ ~ReferencesMissingOrEmpty

\* what the generateSingleImage call of slot i returned
ResultOfSlot(i) == CHOOSE r \in {results[j] : j \in 1..Len(results)} : r.index = i

\* C18: the response to a valid batch request with count N (5 when the body
\* has no count) is a 200 whose images array has length N and holds at
\* position i the image slot i returned, or null when it returned none, in
\* whatever order the N calls returned.
C18_ImagesBySlot ==
    (ValidRequest /\ response # None) =>
        LET N == CountOf(request)
            body == response[1]
        IN /\ response[1].status = 200
           /\ Len(body.images) = N
           /\ \A i \in 0..(N - 1) : body.images[i + 1] = ResultOfSlot(i).image

\* a request without count was answered with five images, of which the last
\* slot's, which returned first, stands last, and the first slot's is null
C18_Witness ==
    /\ ValidRequest
    /\ request.count = None
    /\ response # None
    /\ Len(results) = 5
    /\ results[1].index = 4
    /\ results[5].index = 2
    /\ Len(response[1].images) = 5
    /\ response[1].images[5] # None
    /\ response[1].images[1] = None
    /\ response[1].images[2] # None

\* C19: whichever set S of the N slots fails, all of them included, the
\* endpoint responds 200, images[i] is null exactly for the i in S, and the
\* errors list has exactly one entry for each index in S and none for any
\* other index.
C19_SlotFailuresIndependent ==
    (ValidRequest /\ response # None) =>
        LET N == CountOf(request)
            S == {i \in 0..(N - 1) : ResultOfSlot(i).error # None}
            body == response[1]
        IN /\ response[1].status = 200
           /\ Len(body.images) = N
           /\ \A i \in 0..(N - 1) : body.images[i + 1] = None <=> i \in S
           /\ \A i \in S : Cardinality({k \in 1..Len(body.errors) : body.errors[k].index = i}) = 1
           /\ \A k \in 1..Len(body.errors) : body.errors[k].index \in S

\* C20: the endpoint responds 500 when reading the body fails, 401 when the
\* credential is missing, 400 when the credential is there and the prompt is
\* missing or the reference images are missing or empty, and 200 with images
\* and errors otherwise; for a request it answers with 401 or 400 no call of
\* the generation model is ever made.
C20_StatusCodes ==
    /\ response # None =>
          /\ response[1].status =
                IF request.json = "invalid" THEN 500
                ELSE IF CredentialMissing THEN 401
                ELSE IF PromptMissing \/ ReferencesMissingOrEmpty THEN 400
                ELSE 200
          /\ response[1].status = 200 <=> response[1].error = None
    /\ (request.json = "object"
          /\ (CredentialMissing \/ PromptMissing \/ ReferencesMissingOrEmpty)) =>
          /\ modelCalls = {}
          /\ results = <<>>

\* a request with credential and prompt and an empty list of reference
\* images was answered with 400, no call made
C20_Witness ==
    /\ op = "POST"
    /\ request.json = "object"
    /\ ~CredentialMissing
    /\ ~PromptMissing
    /\ request.referenceImages = Some(<<>>)
    /\ response # None
    /\ response[1].status = 400
    /\ modelCalls = {}
    /\ results = <<>>

(***************************************************************************)
(* C21-C22: reference images and the API key.                              *)
(***************************************************************************)
\* C21: in every reachable state the app holds at most maxImages (3)
\* reference images.
C21_AtMostMaxImages == Len(images) <= maxImages

\* C22: no request the client has sent to /api/generate carries the API key.
C22_KeyNeverSent ==
    /\ \A i \in 1..Len(generateCalls) : generateCalls[i].body.apiKey = ""
    /\ \A i \in 1..Len(refineCalls) : refineCalls[i].body.apiKey = ""

(***************************************************************************)
(* C23-C30: refinement calls, the selection and the marker.                *)
(***************************************************************************)
\* C23: a refinement that passes validation (it sets the marker) sends
\* exactly one call; calls are otherwise only taken away, one at a time, by
\* their own response, so that no call is sent again after a failure: a new
\* call appears only in a step of the Refine button, with a node selected,
\* an instruction typed, a key saved and no refinement pending.
C23_OneCallPerRefinement ==
    [][/\ \/ refineCalls' = refineCalls
          \/ \E i \in 1..Len(refineCalls) : refineCalls' = RemoveAt(refineCalls, i)
          \/ /\ Len(refineCalls') = Len(refineCalls) + 1
             /\ SubSeq(refineCalls', 1, Len(refineCalls)) = refineCalls
             /\ trim(refinementPrompt) # ""
             /\ hasApiKey
             /\ selectedImageId \in NodeIds(generatedImages)
             /\ refiningImageId = null
             /\ refineCalls'[Len(refineCalls')].parentImage.id = selectedImageId
             /\ refiningImageId' = selectedImageId
       /\ (refiningImageId = null /\ refiningImageId' # null)
             => Len(refineCalls') = Len(refineCalls) + 1
      ]_vars

\* a refinement's call has failed in transport and no call is out, although
\* the node is still selected and the instruction still typed in
C23_Witness ==
    /\ error = "Failed to fetch"
    /\ generatedImages # <<>>
    /\ refineCalls = <<>>
    /\ generateCalls = <<>>
    /\ refiningImageId = null
    /\ ~isLoading
    /\ selectedImageId \in NodeIds(generatedImages)
    /\ trim(refinementPrompt) # ""
    /\ hasApiKey

\* C24: when the 200 response of a refinement lands and the target id is
\* the id of no node of the current forest, the refinement fails: an error
\* is set and the forest stays as it is.
C24_StaleTargetFails ==
    [][\A i \in {j \in 1..Len(refineCalls) : refineCalls' = RemoveAt(refineCalls, j)} :
          \A A \in Responses(refineCalls[i].body.count) :
             (/\ RefineSucceedsStep(i, A)
              /\ NodesWithId(generatedImages, refineCalls[i].parentImage.id) = {})
             => /\ generatedImages' = generatedImages
                /\ error' # NoError
      ]_vars

\* everything but the selection
besidesSelection ==
    <<generatedImages, refiningImageId, isLoading, error, refinementPrompt, modalImage,
      apiKey, images, isLoadingDefaults, imageCount, nextId, generateCalls, refineCalls>>

\* C25: a step changes the selection only as a click on a node (to that
\* node, or to none when it was the selected one), as a refinement's success
\* (to none), as the start of a generation (to none) or as an arrow key (to
\* a sibling of the selected node); a refinement's failure, a generation's
\* success or failure, a rejected submission and the opening or closing of
\* the modal leave it as it is.
C25_SelectionChangesOnlyBy ==
    [][/\ selectedImageId' # selectedImageId =>
             \/ /\ UNCHANGED besidesSelection
                /\ modalImage = None
                /\ \/ selectedImageId' \in NodeIds(generatedImages)
                   \/ selectedImageId' = null
             \/ /\ selectedImageId' = null
                /\ \E i \in 1..Len(refineCalls) : refineCalls' = RemoveAt(refineCalls, i)
                /\ error' = error
                /\ refinementPrompt' = ""
                /\ refiningImageId' = null
             \/ /\ selectedImageId' = null
                /\ Len(generateCalls') = Len(generateCalls) + 1
                /\ isLoading'
                /\ generatedImages' = <<>>
             \/ /\ UNCHANGED besidesSelection
                /\ modalImage = None
                /\ selectedImageId # null
                /\ \E k \in 1..Len(SiblingsOf(generatedImages, selectedImageId)) :
                      SiblingsOf(generatedImages, selectedImageId)[k].id = selectedImageId'
       /\ \A i \in {j \in 1..Len(refineCalls) : refineCalls' = RemoveAt(refineCalls, j)} :
             \A kind \in FailureKinds :
                RefineFailsStep(i, kind) => selectedImageId' = selectedImageId
       /\ (\E i \in 1..Len(generateCalls) : generateCalls' = RemoveAt(generateCalls, i))
             => selectedImageId' = selectedImageId
       /\ (error' # error /\ error' # NoError) => selectedImageId' = selectedImageId
       /\ modalImage' # modalImage => selectedImageId' = selectedImageId
      ]_vars

\* a refinement for the selected node has failed and the modal was opened
\* afterwards: the node is still selected
C25_Witness ==
    /\ error = "Failed to refine images"
    /\ modalImage # None
    /\ refineCalls = <<>>
    /\ selectedImageId \in NodeIds(generatedImages)
    /\ ~IsRoot(generatedImages, selectedImageId)

\* C26: the request of a refinement that passes validation lists the
\* reference images the user holds at that moment, in their order, and after
\* them, as its one last element, the image of the node to refine.
C26_ReferencesThenTarget ==
    [][\A parentImage \in RenderedRoots \cup RenderedRefinements :
          (callHandleRefine(parentImage) /\ trim(refinementPrompt) # "" /\ hasApiKey) =>
              /\ Len(refineCalls') = Len(refineCalls) + 1
              /\ LET sent == refineCalls'[Len(refineCalls')].body.referenceImages
                     n == Len(images)
                 IN /\ Len(sent) = n + 1
                    /\ \A k \in 1..n : /\ sent[k].data = images[k].base64
                                       /\ sent[k].mimeType = images[k].mimeType
                    /\ sent[n + 1].data = parentImage.base64
                    /\ sent[n + 1].data = extractBase64(parentImage.url)
                    /\ sent[n + 1].mimeType = "image/png"
      ]_vars

\* handleRefine was invoked for a refinement while the user held the second
\* default image before the first: the request lists them in that order and
\* the refinement's image third
C26_Witness ==
    /\ op = "handleRefine"
    /\ Len(images) = 2
    /\ images[1].base64 = "reference2.png"
    /\ Len(refineCalls) = 1
    /\ ~IsRoot(generatedImages, targetId)
    /\ refineCalls[1].parentImage.id = targetId
    /\ LET sent == refineCalls[1].body.referenceImages IN
          /\ Len(sent) = 3
          /\ sent[1].data = "reference2.png"
          /\ sent[2].data = "reference1.png"
          /\ sent[3].data = NodeOf(generatedImages, targetId).base64

\* C27: the step in which a refinement's call resolves clears the marker,
\* on a 200 response and on a failure, and the step in which a generation's
\* call resolves clears the loading flag; with calls that settle, a marker
\* that is set is cleared later and so is a loading flag; and the marker is
\* set only while a refinement's call is in flight.
C27_MarkerAndLoadingCleared ==
    /\ [][/\ (\E i \in 1..Len(refineCalls) : refineCalls' = RemoveAt(refineCalls, i))
                => refiningImageId' = null
          /\ (\E i \in 1..Len(generateCalls) : generateCalls' = RemoveAt(generateCalls, i))
                => ~isLoading'
         ]_vars
    /\ (refiningImageId # null) ~> (refiningImageId = null)
    /\ isLoading ~> ~isLoading
    /\ [](refiningImageId # null => Len(refineCalls) >= 1)

\* a refinement has attached children, a later one has failed, the
\* generation before them has long ended: marker and loading flag are clear
\* and no call is out
C27_Witness ==
    /\ refiningImageId = null
    /\ ~isLoading
    /\ refineCalls = <<>>
    /\ generateCalls = <<>>
    /\ error = "Failed to refine images"
    /\ \E n \in Nodes(generatedImages) : n.refinements # <<>>

\* C28: the selected id is none or the id of a node of the current forest.
C28_SelectionInForest ==
    selectedImageId = null \/ selectedImageId \in NodeIds(generatedImages)

\* the selected node is a refinement of a refinement, made in the second
\* generation of the session or later
C28_Witness ==
    /\ selectedImageId # null
    /\ ~IsRoot(generatedImages, selectedImageId)
    /\ \E p \in ParentsOf(generatedImages, selectedImageId) :
          ~IsRoot(generatedImages, p.id)
    /\ \A n \in Nodes(generatedImages) : n.id > 1

\* C29: when the 200 response of a refinement arrives, its images become
\* the last children of the node the refinement was submitted for, whichever
\* node the user has selected in the meantime; the node selected at that
\* moment, if it is another one, has the children it had.
C29_AttachesToSubmittedTarget ==
    [][\A A \in Responses(3) :
          callRefineSucceeded(A) =>
             LET X == refineCalls[1].parentImage.id
                 S == selectedImageId
                 old == NodeOf(generatedImages, X).refinements
                 new == NodeOf(generatedImages', X).refinements
             IN /\ Cardinality(NodesWithId(generatedImages', X)) = 1
                /\ Len(new) = Len(old) + Len(NonNull(A))
                /\ SubSeq(new, 1, Len(old)) = old
                /\ FreshRecordsFor(SubSeq(new, Len(old) + 1, Len(new)), NonNull(A))
                /\ (S # null /\ S # X) =>
                      /\ Cardinality(NodesWithId(generatedImages', S)) = 1
                      /\ ChildIds(generatedImages', S) = ChildIds(generatedImages, S)
                /\ \A n \in Nodes(generatedImages) :
                      n.id # X => ChildIds(generatedImages', n.id) = IdsOf(n.refinements)
      ]_vars

\* the response has arrived while a sibling of the refinement's node was
\* selected: the new images are children of the refinement's node, and the
\* sibling has none of them
C29_Witness ==
    /\ op = "refineSucceeded"
    /\ result # None
    /\ targetId # null
    /\ targetId # result[1]
    /\ \E p \in ParentsOf(generatedImages, targetId) :
          p \in ParentsOf(generatedImages, result[1])
    /\ newRefinements # <<>>
    /\ LET new == NodeOf(generatedImages, result[1]).refinements IN
          /\ Len(new) >= Len(newRefinements)
          /\ SubSeq(new, Len(new) - Len(newRefinements) + 1, Len(new)) = newRefinements
    /\ \A k \in 1..Len(newRefinements) :
          newRefinements[k].id \notin {c.id : c \in Nodes(NodeOf(generatedImages, targetId).refinements)}

\* C30: when the 200 response of a refinement arrives after a generation
\* has replaced the forest the refinement was submitted for, the selection
\* the user has made on the new forest stays as it is.
C30_StaleResultKeepsSelection ==
    [][\A i \in {j \in 1..Len(refineCalls) :
                   error' = error /\ refineCalls' = RemoveAt(refineCalls, j)} :
          \A A \in {B \in Responses(refineCalls[i].body.count) :
                       nextId' = nextId + Successes(B)} :
             (RefineSucceedsStep(i, A) /\ GenerationStartedSince(i)) =>
                selectedImageId' = selectedImageId
      ]_vars

====
